---- MODULE Spec2Model ----
(***************************************************************************)
(* Verification model of the interview-preparation exercises:              *)
(*   001.StriverSde/004.Recursion/001.subset_sums.c      (Spec)            *)
(*   007.leetcode/33.Search_in_Rotated_Sorted_Array.c    (SpecSearch)      *)
(*   007.leetcode/34.Find_First_and_Last_Position...c    (SpecSearch)      *)
(*   007.leetcode/36.Valid_Sudoku.c                      (SpecSudoku)      *)
(* C arrays are 0-based; the sequences below are 1-based, so the C element *)
(* a[i] is the TLA+ element a[i + 1].                                      *)
(***************************************************************************)
EXTENDS Integers, Sequences, FiniteSets

VARIABLES
    \* ---- subset_sums.c
    arr,        \* the caller's array as the most recent call left it
    sums,       \* int sums[100]
    pos,        \* int pos
    arr0,       \* history: the array as passed to the most recent call
    pos0,       \* history: pos when the most recent call started
    calls,      \* history: number of printSubSetSum calls so far
    hiWrite,    \* history: highest C index of sums[] that solve wrote (-1: none)
    outcome,    \* "ok", or what the build did after a write past sums[99]
    \* ---- 33.Search_in_Rotated_Sorted_Array.c / 34.Find_First_and_Last...c
    routine,    \* which routine is running: "findMin", "findBound", "none"
    nums,       \* int nums[]
    key,        \* int key
    isFirst,    \* bool isFirst (findBound only)
    start,      \* findMin: int start
    begin,      \* findBound: int begin
    end,        \* findMin / findBound: int end
    pc,         \* "loop" while in the while loop, "done" after return
    ret,        \* the returned value once pc = "done"
    reads,      \* history: C indices of nums[] read so far
    \* ---- 36.Valid_Sudoku.c
    board,      \* char board[9][9], as character codes
    verdict1,   \* result of the counting version, "none" before the call
    verdict2    \* result of the position-table version

vars == <<arr, sums, pos, arr0, pos0, calls, hiWrite, outcome,
          routine, nums, key, isFirst, start, begin, end, pc, ret, reads,
          board, verdict1, verdict2>>

subsetVars == <<arr, sums, pos, arr0, pos0, calls, hiWrite, outcome>>
searchVars == <<routine, nums, key, isFirst, start, begin, end, pc, ret, reads>>
sudokuVars == <<board, verdict1, verdict2>>

----------------------------------------------------------------------------
\* Bounds of the model
MaxVal == 1         \* subset-sum inputs have elements -1..MaxVal
MaxLen == 2         \* longest subset-sum input whose elements vary freely
MaxCalls == 2       \* printSubSetSum calls in one process
MaxN == 4           \* longest array given to findMin / findBound
MaxElem == 4        \* array elements of the searches are 1..MaxElem
MaxLine == 3        \* rows and columns of the boards that may hold digits
MaxDigit == 2       \* digits placed on the boards are '1'..MaxDigit
MaxFilled == 2      \* filled cells of a board

\* Program constant
SumsCap == 100      \* int sums[100]

RECURSIVE Pow2(_)
Pow2(n) == IF n = 0 THEN 1 ELSE 2 * Pow2(n - 1)

\* The first length whose 2^N results do not fit in sums[].
OverflowLen == CHOOSE n \in 1..SumsCap : Pow2(n) > SumsCap /\ Pow2(n - 1) <= SumsCap

Vals == (-1)..MaxVal

ShortArrays == UNION {[1..n -> Vals] : n \in 0..MaxLen}
LongArrays == {[i \in 1..n |-> v] : n \in (MaxLen + 1)..OverflowLen, v \in Vals}
Inputs == ShortArrays \cup LongArrays

----------------------------------------------------------------------------
\* subset_sums.c

\* cmp with the operands of the subtraction exchanged.
cmpAscending(x, y) == x - y

\* int cmp(const void *a, const void *b): return (y - x)
cmp(x, y) == y - x

\* qsort(arr, len, sizeof(int), cmp): the array ordered so that cmp of two
\* neighbours is never positive.
RECURSIVE InsertByCmp(_, _)
InsertByCmp(s, x) ==
    IF s = <<>> THEN <<x>>
    ELSE IF cmp(x, Head(s)) <= 0 THEN <<x>> \o s
    ELSE <<Head(s)>> \o InsertByCmp(Tail(s), x)

RECURSIVE qsort(_)
qsort(a) == IF a = <<>> THEN <<>> ELSE InsertByCmp(qsort(Tail(a)), Head(a))

\* solve whose include branch forgets to add arr[idx].
RECURSIVE solveNoAdd(_, _, _, _)
solveNoAdd(idx, a, n, sum) ==
    IF idx = n
    THEN <<sum>>
    ELSE solveNoAdd(idx + 1, a, n, sum + 0) \o solveNoAdd(idx + 1, a, n, sum)

\* solve(idx, arr, n, sum): the values that the leaves assign by
\* sums[pos++] = sum, in the order of the assignments (exclude branch
\* first, include branch second).
RECURSIVE solve(_, _, _, _)
solve(idx, a, n, sum) ==
    IF idx = n
    THEN <<sum>>
    ELSE solve(idx + 1, a, n, sum + 0) \o solve(idx + 1, a, n, sum + a[idx + 1])

\* The assignments sums[pos++] = w[1], ..., sums[pos++] = w[Len(w)] applied
\* to the buffer buf from counter p.  A write past sums[99] does not land
\* in the buffer.
Store(buf, p, w) ==
    [i \in 1..SumsCap |-> IF p < i /\ i <= p + Len(w) THEN w[i - p] ELSE buf[i]]

\* printSubSetSum(arr, len): sort the caller's array in place, then solve.
\* After a write past the end of sums[] the behaviour is undefined: the
\* process either faults at the first such write or runs on.
printSubSetSum(a) ==
    /\ calls < MaxCalls
    /\ outcome = "ok"
    /\ LET sorted == qsort(a)
           w == solve(0, sorted, Len(sorted), 0)
       IN /\ arr' = sorted
          /\ sums' = Store(sums, pos, w)
          /\ hiWrite' = pos + Len(w) - 1
          /\ IF pos + Len(w) <= SumsCap
             THEN outcome' = "ok" /\ pos' = pos + Len(w)
             ELSE \/ outcome' = "overrun" /\ pos' = pos + Len(w)
                  \/ outcome' = "fault" /\ pos' = SumsCap
    /\ arr0' = a
    /\ pos0' = pos
    /\ calls' = calls + 1

SubsetInit ==
    /\ arr = <<>>
    /\ sums = [i \in 1..SumsCap |-> 0]
    /\ pos = 0
    /\ arr0 = <<>>
    /\ pos0 = 0
    /\ calls = 0
    /\ hiWrite = -1
    /\ outcome = "ok"

SearchIdle ==
    /\ routine = "none"
    /\ nums = <<>>
    /\ key = 0
    /\ isFirst = FALSE
    /\ start = 0
    /\ begin = 0
    /\ end = -1
    /\ pc = "done"
    /\ ret = -1
    /\ reads = {}

SudokuIdle ==
    /\ board = <<>>
    /\ verdict1 = "none"
    /\ verdict2 = "none"

Init == SubsetInit /\ SearchIdle /\ SudokuIdle

Call == \E a \in Inputs : printSubSetSum(a)

Next == Call /\ UNCHANGED <<searchVars, sudokuVars>>

Spec == Init /\ [][Next]_vars

----------------------------------------------------------------------------
\* 33.Search_in_Rotated_Sorted_Array.c and
\* 34.Find_First_and_Last_Position_of_Element_in_Sorted_Array.c

SearchArrays == UNION {[1..n -> 1..MaxElem] : n \in 0..MaxN}
Keys == 0..(MaxElem + 1)

\* nums[i] for a C index i.  A read outside nums[0..len) is taken to yield
\* 0; the index of every read is recorded in reads.
At(a, i) == IF i \in 0..(Len(a) - 1) THEN a[i + 1] ELSE 0

\* findMin whose test for the sorted left half is strict.
findMinStrict(a, k, s, e) ==
    IF s <= e
    THEN LET mid == s + (e - s) \div 2 IN
         IF At(a, mid) = k
         THEN [start |-> s, end |-> e, pc |-> "done", ret |-> mid, rd |-> {mid}]
         ELSE IF At(a, mid) > At(a, s)
         THEN IF k >= At(a, s) /\ k < At(a, mid)
              THEN [start |-> s, end |-> mid - 1, pc |-> "loop", ret |-> -1, rd |-> {mid, s}]
              ELSE [start |-> mid + 1, end |-> e, pc |-> "loop", ret |-> -1, rd |-> {mid, s}]
         ELSE IF k <= At(a, e) /\ k > At(a, mid)
              THEN [start |-> mid + 1, end |-> e, pc |-> "loop", ret |-> -1, rd |-> {mid, s, e}]
              ELSE [start |-> s, end |-> mid - 1, pc |-> "loop", ret |-> -1, rd |-> {mid, s, e}]
    ELSE [start |-> s, end |-> e, pc |-> "done", ret |-> -1, rd |-> {}]

\* findMin that returns start, the insertion point, when the loop runs out.
findMinInsertionPoint(a, k, s, e) ==
    IF s <= e
    THEN LET mid == s + (e - s) \div 2 IN
         IF At(a, mid) = k
         THEN [start |-> s, end |-> e, pc |-> "done", ret |-> mid, rd |-> {mid}]
         ELSE IF At(a, mid) >= At(a, s)
         THEN IF k >= At(a, s) /\ k < At(a, mid)
              THEN [start |-> s, end |-> mid - 1, pc |-> "loop", ret |-> -1, rd |-> {mid, s}]
              ELSE [start |-> mid + 1, end |-> e, pc |-> "loop", ret |-> -1, rd |-> {mid, s}]
         ELSE IF k <= At(a, e) /\ k > At(a, mid)
              THEN [start |-> mid + 1, end |-> e, pc |-> "loop", ret |-> -1, rd |-> {mid, s, e}]
              ELSE [start |-> s, end |-> mid - 1, pc |-> "loop", ret |-> -1, rd |-> {mid, s, e}]
    ELSE [start |-> s, end |-> e, pc |-> "done", ret |-> s, rd |-> {}]

\* findMin that narrows to start = mid instead of mid + 1.
findMinNoAdvance(a, k, s, e) ==
    IF s <= e
    THEN LET mid == s + (e - s) \div 2 IN
         IF At(a, mid) = k
         THEN [start |-> s, end |-> e, pc |-> "done", ret |-> mid, rd |-> {mid}]
         ELSE IF At(a, mid) >= At(a, s)
         THEN IF k >= At(a, s) /\ k < At(a, mid)
              THEN [start |-> s, end |-> mid - 1, pc |-> "loop", ret |-> -1, rd |-> {mid, s}]
              ELSE [start |-> mid, end |-> e, pc |-> "loop", ret |-> -1, rd |-> {mid, s}]
         ELSE IF k <= At(a, e) /\ k > At(a, mid)
              THEN [start |-> mid, end |-> e, pc |-> "loop", ret |-> -1, rd |-> {mid, s, e}]
              ELSE [start |-> s, end |-> mid - 1, pc |-> "loop", ret |-> -1, rd |-> {mid, s, e}]
    ELSE [start |-> s, end |-> e, pc |-> "done", ret |-> -1, rd |-> {}]

\* findMin(nums, len, key): the loop test and one pass through the body of
\* while (start <= end), from start = s and end = e.  rd is the set of
\* indices of nums[] the pass reads.
findMin(a, k, s, e) ==
    IF s <= e
    THEN LET mid == s + (e - s) \div 2 IN
         IF At(a, mid) = k
         THEN [start |-> s, end |-> e, pc |-> "done", ret |-> mid, rd |-> {mid}]
         ELSE IF At(a, mid) >= At(a, s)
         THEN IF k >= At(a, s) /\ k < At(a, mid)
              THEN [start |-> s, end |-> mid - 1, pc |-> "loop", ret |-> -1, rd |-> {mid, s}]
              ELSE [start |-> mid + 1, end |-> e, pc |-> "loop", ret |-> -1, rd |-> {mid, s}]
         ELSE IF k <= At(a, e) /\ k > At(a, mid)
              THEN [start |-> mid + 1, end |-> e, pc |-> "loop", ret |-> -1, rd |-> {mid, s, e}]
              ELSE [start |-> s, end |-> mid - 1, pc |-> "loop", ret |-> -1, rd |-> {mid, s, e}]
    ELSE [start |-> s, end |-> e, pc |-> "done", ret |-> -1, rd |-> {}]

\* findBound that returns the first match the bisection meets.
findBoundAnyMatch(a, k, first, b, e) ==
    IF b <= e
    THEN LET mid == (b + e) \div 2 IN
         IF At(a, mid) = k
         THEN [begin |-> b, end |-> e, pc |-> "done", ret |-> mid, rd |-> {mid}]
         ELSE IF At(a, mid) > k
         THEN [begin |-> b, end |-> mid - 1, pc |-> "loop", ret |-> -1, rd |-> {mid}]
         ELSE [begin |-> mid + 1, end |-> e, pc |-> "loop", ret |-> -1, rd |-> {mid}]
    ELSE [begin |-> b, end |-> e, pc |-> "done", ret |-> -1, rd |-> {}]

\* findBound(nums, len, key, isFirst): the loop test and one pass through
\* the body of while (begin <= end), from begin = b and end = e.
findBound(a, k, first, b, e) ==
    IF b <= e
    THEN LET mid == (b + e) \div 2 IN
         IF At(a, mid) = k
         THEN IF first
              THEN IF mid = b
                   THEN [begin |-> b, end |-> e, pc |-> "done", ret |-> mid, rd |-> {mid}]
                   ELSE IF At(a, mid - 1) # k
                   THEN [begin |-> b, end |-> e, pc |-> "done", ret |-> mid, rd |-> {mid, mid - 1}]
                   ELSE [begin |-> b, end |-> mid - 1, pc |-> "loop", ret |-> -1, rd |-> {mid, mid - 1}]
              ELSE IF mid = e
                   THEN [begin |-> b, end |-> e, pc |-> "done", ret |-> mid, rd |-> {mid}]
                   ELSE IF At(a, mid + 1) # k
                   THEN [begin |-> b, end |-> e, pc |-> "done", ret |-> mid, rd |-> {mid, mid + 1}]
                   ELSE [begin |-> mid + 1, end |-> e, pc |-> "loop", ret |-> -1, rd |-> {mid, mid + 1}]
         ELSE IF At(a, mid) > k
         THEN [begin |-> b, end |-> mid - 1, pc |-> "loop", ret |-> -1, rd |-> {mid}]
         ELSE [begin |-> mid + 1, end |-> e, pc |-> "loop", ret |-> -1, rd |-> {mid}]
    ELSE [begin |-> b, end |-> e, pc |-> "done", ret |-> -1, rd |-> {}]

\* One pass of findMin's loop, or its exit.
FindMinIter ==
    /\ routine = "findMin"
    /\ pc = "loop"
    /\ LET r == findMin(nums, key, start, end)
       IN /\ start' = r.start
          /\ end' = r.end
          /\ pc' = r.pc
          /\ ret' = r.ret
          /\ reads' = reads \cup r.rd
    /\ UNCHANGED <<routine, nums, key, isFirst, begin>>

\* One pass of findBound's loop, or its exit.
FindBoundIter ==
    /\ routine = "findBound"
    /\ pc = "loop"
    /\ LET r == findBound(nums, key, isFirst, begin, end)
       IN /\ begin' = r.begin
          /\ end' = r.end
          /\ pc' = r.pc
          /\ ret' = r.ret
          /\ reads' = reads \cup r.rd
    /\ UNCHANGED <<routine, nums, key, isFirst, start>>

\* Entry of findMin(nums, len, key): start = 0, end = len - 1.
FindMinEntry ==
    /\ routine = "findMin"
    /\ nums \in SearchArrays
    /\ key \in Keys
    /\ isFirst = FALSE
    /\ start = 0
    /\ begin = 0
    /\ end = Len(nums) - 1
    /\ pc = "loop"
    /\ ret = -1
    /\ reads = {}

\* Entry of findBound(nums, len, key, isFirst): begin = 0, end = len - 1.
FindBoundEntry ==
    /\ routine = "findBound"
    /\ nums \in SearchArrays
    /\ key \in Keys
    /\ isFirst \in BOOLEAN
    /\ start = 0
    /\ begin = 0
    /\ end = Len(nums) - 1
    /\ pc = "loop"
    /\ ret = -1
    /\ reads = {}

SearchInit == (FindMinEntry \/ FindBoundEntry) /\ SubsetInit /\ SudokuIdle

SearchNext == (FindMinIter \/ FindBoundIter) /\ UNCHANGED <<subsetVars, sudokuVars>>

SpecSearch == SearchInit /\ [][SearchNext]_vars

\* Both routines are sequential code: a loop that can take a pass takes it.
SpecSearchFair == SpecSearch /\ WF_vars(SearchNext)

----------------------------------------------------------------------------
\* Properties of the searches

Occurs(a, k) == \E i \in 1..Len(a) : a[i] = k

StrictlyAscending(a) == \A i \in 1..(Len(a) - 1) : a[i] < a[i + 1]

NonDecreasing(a) == \A i \in 1..(Len(a) - 1) : a[i] <= a[i + 1]

\* a rotated left by k positions
RotateLeft(a, k) == [i \in 1..Len(a) |-> a[((i - 1 + k) % Len(a)) + 1]]

\* a is a strictly ascending array rotated by some offset (0 included)
RotatedAscending(a) ==
    \/ Len(a) = 0
    \/ \E k \in 0..(Len(a) - 1) : StrictlyAscending(RotateLeft(a, k))

\* C2: on a rotation of a strictly ascending array and a key that occurs in
\* it, findMin returns an index i in [0, len) with A[i] = key.
C2_FindMinLocatesKey ==
    (routine = "findMin" /\ pc = "done" /\ RotatedAscending(nums) /\ Occurs(nums, key))
        => (ret \in 0..(Len(nums) - 1) /\ nums[ret + 1] = key)

\* findMin has found, past the pivot of a properly rotated array of at
\* least three elements, a key that is not at the first probe.
C2_Witness ==
    /\ routine = "findMin" /\ pc = "done"
    /\ Len(nums) >= 3
    /\ RotatedAscending(nums) /\ ~StrictlyAscending(nums)
    /\ Occurs(nums, key)
    /\ Cardinality(reads) >= 2
    /\ ret >= 0 /\ nums[ret + 1] = key /\ nums[ret + 1] < nums[1]

FirstIndexOf(a, k) == CHOOSE i \in 0..(Len(a) - 1) :
    a[i + 1] = k /\ \A j \in 0..(i - 1) : a[j + 1] # k

LastIndexOf(a, k) == CHOOSE i \in 0..(Len(a) - 1) :
    a[i + 1] = k /\ \A j \in (i + 1)..(Len(a) - 1) : a[j + 1] # k

\* C3: on a non-decreasing array and a key that occurs in it, findBound
\* returns the smallest index holding the key when isFirst, the largest
\* index holding it otherwise.
C3_FindBoundFirstAndLast ==
    (routine = "findBound" /\ pc = "done" /\ NonDecreasing(nums) /\ Occurs(nums, key))
        => ret = IF isFirst THEN FirstIndexOf(nums, key) ELSE LastIndexOf(nums, key)

\* findBound has returned the last index of a run of at least two equal
\* keys after a pass that matched the key inside the run.
C3_Witness ==
    /\ routine = "findBound" /\ pc = "done" /\ ~isFirst
    /\ NonDecreasing(nums) /\ ~StrictlyAscending(nums)
    /\ ret >= 1 /\ nums[ret + 1] = key /\ nums[ret] = key
    /\ begin > 0
    /\ ret = LastIndexOf(nums, key)

\* C4: when the key does not occur, findMin returns -1 on every rotation of
\* a strictly ascending array and findBound returns -1 on every
\* non-decreasing array, the empty array included.
C4_AbsentKeyGivesMinusOne ==
    (/\ pc = "done"
     /\ ~Occurs(nums, key)
     /\ \/ routine = "findMin" /\ RotatedAscending(nums)
        \/ routine = "findBound" /\ NonDecreasing(nums))
        => ret = -1

\* findMin has run its loop out on a properly rotated array whose values
\* lie on both sides of the absent key.
C4_Witness ==
    /\ routine = "findMin" /\ pc = "done" /\ ret = -1
    /\ Len(nums) >= 3
    /\ RotatedAscending(nums) /\ ~StrictlyAscending(nums)
    /\ ~Occurs(nums, key)
    /\ \E i, j \in 1..Len(nums) : nums[i] < key /\ key < nums[j]
    /\ start > end

\* C8: on every array and key each pass of findMin's loop that does not
\* return strictly decreases end - start, no pass reads outside
\* nums[0..len), and findMin returns.
C8_FindMinTerminates ==
    /\ [][(routine = "findMin" /\ pc = "loop")
             => (pc' = "done" \/ end' - start' < end - start)]_vars
    /\ [](routine = "findMin" => reads \subseteq 0..(Len(nums) - 1))
    /\ (routine = "findMin" ~> pc = "done")

\* findMin has run its loop out on an array with duplicates that is not a
\* rotation of an ascending array, after reading three or more elements.
C8_Witness ==
    /\ routine = "findMin" /\ pc = "done" /\ ret = -1
    /\ ~RotatedAscending(nums)
    /\ \E i, j \in 1..Len(nums) : i # j /\ nums[i] = nums[j]
    /\ Occurs(nums, key)
    /\ Cardinality(reads) >= 3
    /\ start > end

----------------------------------------------------------------------------
\* 36.Valid_Sudoku.c

Dot == 46           \* '.'
Zero == 48          \* '0'

\* Rows and columns that may hold digits: a spread over the three bands.
Lines == {(x * 5) % 9 : x \in 0..MaxLine}

EmptyBoard == [i \in 0..8 |-> [j \in 0..8 |-> Dot]]

Filled(b) == {c \in (0..8) \X (0..8) : b[c[1]][c[2]] # Dot}

\* arr[] after counting the cells of one row, column or box:
\* if (board[i][j] != 46) arr[board[i][j] % 48]++
Tally(b, cells) ==
    [k \in 0..9 |->
        Cardinality({c \in cells : b[c[1]][c[2]] # 46 /\ b[c[1]][c[2]] % 48 = k})]

\* for (k = 0; k < 10; k++) if (arr[k] > 1) return false
Over(a) == \E k \in 0..9 : a[k] > 1

\* The while (t < 9) loop over the boxes, from t and p.
RECURSIVE BoxLoop(_, _, _)
BoxLoop(b, t, p) ==
    IF ~(t < 9) THEN TRUE
    ELSE LET t1 == IF p = 9 THEN t + 3 ELSE t
             p1 == IF p = 9 THEN 0 ELSE p
         IN IF t1 = 9 THEN TRUE
            ELSE IF Over(Tally(b, (t1..(t1 + 2)) \X (p1..(p1 + 2)))) THEN FALSE
            ELSE BoxLoop(b, t1, p1 + 3)

\* isValidSudoku, first definition: count every row, then every column,
\* then every 3x3 box.
isValidSudokuCount(b) ==
    IF \E i \in 0..8 : Over(Tally(b, {i} \X (0..8))) THEN FALSE
    ELSE IF \E i \in 0..8 : Over(Tally(b, (0..8) \X {i})) THEN FALSE
    ELSE BoxLoop(b, 0, 0)

\* The position-table scan with its loop over the earlier rows of the box
\* left out.
RECURSIVE PosScanNoRowLoop(_, _, _, _)
PosScanNoRowLoop(b, c, rowNumPosition, colNumPosition) ==
    IF c = 81 THEN TRUE
    ELSE LET i == c \div 9
             j == c % 9
         IN IF b[i][j] = Dot
            THEN PosScanNoRowLoop(b, c + 1, rowNumPosition, colNumPosition)
            ELSE LET num == b[i][j] - Zero - 1
                 IN IF rowNumPosition[i][num] # -1 \/ colNumPosition[j][num] # -1
                    THEN FALSE
                    ELSE LET rp == [rowNumPosition EXCEPT ![i][num] = j]
                             cp == [colNumPosition EXCEPT ![j][num] = i]
                             rowStart == (i \div 3) * 3
                             colStart == (j \div 3) * 3
                         IN IF \E n \in colStart..(j - 1) :
                                  cp[n][num] >= rowStart /\ rp[n][num] < rowStart + 3
                            THEN FALSE
                            ELSE PosScanNoRowLoop(b, c + 1, rp, cp)

\* The two nested for loops of the second definition from cell c = 9 * i + j
\* on, with the tables as they stand.  The loop over n reads
\* rowNumPosition[n][num], as the source does.
RECURSIVE PosScan(_, _, _, _)
PosScan(b, c, rowNumPosition, colNumPosition) ==
    IF c = 81 THEN TRUE
    ELSE LET i == c \div 9
             j == c % 9
         IN IF b[i][j] = Dot
            THEN PosScan(b, c + 1, rowNumPosition, colNumPosition)
            ELSE LET num == b[i][j] - Zero - 1
                 IN IF rowNumPosition[i][num] # -1 \/ colNumPosition[j][num] # -1
                    THEN FALSE
                    ELSE LET rp == [rowNumPosition EXCEPT ![i][num] = j]
                             cp == [colNumPosition EXCEPT ![j][num] = i]
                             rowStart == (i \div 3) * 3
                             colStart == (j \div 3) * 3
                         IN IF \E m \in rowStart..(i - 1) :
                                  rp[m][num] >= colStart /\ rp[m][num] < colStart + 3
                            THEN FALSE
                            ELSE IF \E n \in colStart..(j - 1) :
                                  cp[n][num] >= rowStart /\ rp[n][num] < rowStart + 3
                            THEN FALSE
                            ELSE PosScan(b, c + 1, rp, cp)

\* isValidSudoku, second definition: tables of the position of each digit
\* in each row and column, all -1 at first.
isValidSudokuPos(b) ==
    PosScan(b, 0, [i \in 0..8 |-> [n \in 0..8 |-> -1]],
                  [i \in 0..8 |-> [n \in 0..8 |-> -1]])

\* The caller, before it validates, writes a digit into an empty cell of
\* the board.
Place ==
    /\ verdict1 = "none"
    /\ Cardinality(Filled(board)) < MaxFilled
    /\ \E i \in Lines, j \in Lines, d \in 1..MaxDigit :
          /\ board[i][j] = Dot
          /\ board' = [board EXCEPT ![i][j] = Zero + d]
    /\ UNCHANGED <<verdict1, verdict2>>

\* The bool a call returned, as kept in verdict1 / verdict2.
Returned(v) == IF v THEN "true" ELSE "false"

\* Both definitions of isValidSudoku are called on the board.
Validate ==
    /\ verdict1 = "none"
    /\ verdict1' = Returned(isValidSudokuCount(board))
    /\ verdict2' = Returned(isValidSudokuPos(board))
    /\ UNCHANGED board

SudokuInit ==
    /\ board = EmptyBoard
    /\ verdict1 = "none"
    /\ verdict2 = "none"
    /\ SubsetInit
    /\ SearchIdle

SudokuNext ==
    /\ (Place \/ Validate)
    /\ UNCHANGED <<subsetVars, searchVars>>

SpecSudoku == SudokuInit /\ [][SudokuNext]_vars

----------------------------------------------------------------------------
\* Properties of the Sudoku validators

SameBox(c1, c2) == c1[1] \div 3 = c2[1] \div 3 /\ c1[2] \div 3 = c2[2] \div 3

\* No digit occurs twice in any row, any column or any 3x3 box.
NoDigitTwice(b) ==
    \A c1, c2 \in Filled(b) :
        (c1 # c2 /\ b[c1[1]][c1[2]] = b[c2[1]][c2[2]])
            => (c1[1] # c2[1] /\ c1[2] # c2[2] /\ ~SameBox(c1, c2))

\* C10: on every board of '1'..'9' and '.', the counting version and the
\* position-table version return the same verdict, which is true exactly
\* when no digit occurs twice in any row, column or 3x3 box.
C10_SudokuVersionsAgree ==
    verdict1 # "none" =>
        /\ verdict1 = verdict2
        /\ verdict1 = Returned(NoDigitTwice(board))

\* Both versions have rejected a board whose only duplicate is inside a
\* box, in different rows and columns, the later cell lying in an earlier
\* column than the first one.
C10_Witness ==
    /\ verdict1 = "false" /\ verdict2 = "false"
    /\ \E c1, c2 \in Filled(board) :
          /\ c1[1] < c2[1] /\ c2[2] < c1[2]
          /\ board[c1[1]][c1[2]] = board[c2[1]][c2[2]]
          /\ SameBox(c1, c2)
    /\ \A c1, c2 \in Filled(board) : c1 # c2 => (c1[1] # c2[1] /\ c1[2] # c2[2])

----------------------------------------------------------------------------
\* Properties of subset_sums.c

RECURSIVE SumOf(_, _)
SumOf(a, S) ==
    IF S = {} THEN 0
    ELSE LET i == CHOOSE j \in S : TRUE IN a[i] + SumOf(a, S \ {i})

\* Number of subsets of the positions of a whose elements add up to v.
SubsetsWithSum(a, v) == Cardinality({S \in SUBSET (1..Len(a)) : SumOf(a, S) = v})

\* Number of entries of sums[0..pos) equal to v.
ResultsWithSum(v) == Cardinality({i \in 1..pos : sums[i] = v})

AllSumsOf(a) == {SumOf(a, S) : S \in SUBSET (1..Len(a))}

\* sums[0..pos) is, as a multiset, the sums of all subsets of a.
ResultIsSubsetSumsOf(a) ==
    /\ pos = Pow2(Len(a))
    /\ \A v \in AllSumsOf(a) \cup {sums[i] : i \in 1..pos} :
          ResultsWithSum(v) = SubsetsWithSum(a, v)

\* C1: a call printSubSetSum(arr, N) with 2^N <= 100 that starts with
\* pos = 0 ends with pos = 2^N and sums[0..pos) equal, as a multiset, to the
\* sums of all subsets of arr (empty subset included, equal sums all kept).
C1_SubsetSumsComplete ==
    (calls >= 1 /\ pos0 = 0 /\ Pow2(Len(arr0)) <= SumsCap)
        => ResultIsSubsetSumsOf(arr0)

\* A first call on three elements has stored 8 sums, two of them equal
\* and coming from different subsets, and the sum 0 of the empty subset.
C1_Witness ==
    /\ calls = 1 /\ pos0 = 0 /\ Len(arr0) = 3 /\ pos = 8
    /\ \E i, j \in 1..pos : i # j /\ sums[i] = sums[j] /\ sums[i] # 0
    /\ sums[1] = 0

\* C5: after printSubSetSum the values of sums[0..pos), in the order main
\* prints them, are non-decreasing.
C5_SumsNonDecreasing ==
    (calls >= 1 /\ outcome = "ok")
        => \A i \in 1..(pos - 1) : sums[i] <= sums[i + 1]

\* C6: in no execution does solve write sums[pos] with pos >= 100.
C6_NoWritePastCapacity == hiWrite < SumsCap

C9_ResultOfLastCallOnly ==
    (calls >= 1 /\ outcome = "ok") => ResultIsSubsetSumsOf(arr0)

====
